---- MODULE Spec2Model ----
(***************************************************************************)
(* The JSON object checkers of Spyglass: object / record, opt, deprecated, *)
(* dispatch, pick, when, extract and having.                               *)
(*                                                                         *)
(* A checker is an async function (node, ctx).  None of the checkers here  *)
(* contains an await, so one call of a checker is one synchronous turn:    *)
(* it is modelled as one operator on the record M of everything a turn can *)
(* write (the diagnostic sink, the hover and expectation slots, the log of *)
(* checker calls, the suspended leaf checkers).  A leaf checker that       *)
(* suspends leaves its continuation in M.pending; the event loop resumes   *)
(* the suspended continuations one at a time, in any order.                *)
(***************************************************************************)
EXTENDS Integers, Sequences, FiniteSets, TLC

VARIABLES
    mode,       \* which checker is applied to the root node
    doc,        \* the root node of the tree handed to the checker
    ctx0,       \* the JsonCheckerContext handed to the checker
    props,      \* the CheckerRecord of the schema (record / when / dynamic value)
    notProps,   \* the notProperties record of when
    cases,      \* the case table of pick / having (pick rewrites it in place)
    cases0,     \* the case table as it was constructed
    sink,       \* ctx.err: the diagnostics reported so far, in order
    hover,      \* the hover slot of each key node of the root
    expect,     \* the expectation slot of each node
    calls,      \* log of the property checker and selector invocations
    pending,    \* the suspended leaf checkers
    run,        \* how many times the checker has been called
    hoverPrev   \* the hover slots as the previous call left them

vars == <<mode, doc, ctx0, props, notProps, cases, cases0, sink, hover, expect,
          calls, pending, run, hoverPrev>>

(***************************** bounds **************************************)
MaxChildren == 2
MaxRuns == 2

(***************************** values **************************************)
Undefined == "undefined"
NoKey == "<no key>"

SeqsUpTo(S, n) == UNION {[1..k -> S] : k \in 0..n}

\* Faulty variant, for comparison: the discriminant looked up as written.
KeepNamespace(value) == value

\* value.replace(/^minecraft:/, ''): one leading prefix is removed.
StripNamespace(value) ==
    CASE value = "minecraft:foo" -> "foo"
      [] value = "minecraft:zzz" -> "zzz"
      [] value = "minecraft:minecraft:foo" -> "minecraft:foo"
      [] OTHER -> value

\* localize(`json.doc.${context}`): the catalogue documents the paths ending in "a".
Localize(context) ==
    IF context[Len(context)] = "a" THEN <<"json.doc">> \o context ELSE <<>>

(***************************** nodes ***************************************)
StringNode(v) == [type |-> "json:string", value |-> v, start |-> 0, children |-> <<>>]
ObjectNode(s, ch) == [type |-> "json:object", value |-> Undefined, start |-> s, children |-> ch]
NullNode == [type |-> "json:null", value |-> Undefined, start |-> 0, children |-> <<>>]
NoNode == [type |-> Undefined, value |-> Undefined, start |-> 0, children |-> <<>>]

RootRef == [kind |-> "root", i |-> 0, start |-> 0, end |-> 0]
KeyRef(i) == [kind |-> "key", i |-> i, start |-> 0, end |-> 0]
ValueRef(i) == [kind |-> "value", i |-> i, start |-> 0, end |-> 0]
SyntheticRef == [kind |-> "synthetic", i |-> 0, start |-> 0, end |-> 0]
RangeCreate(s, e) == [kind |-> "range", i |-> 0, start |-> s, end |-> e]

NoExpectation == <<>>
NoHover == [context |-> <<>>, types |-> <<>>, doc |-> <<>>]

(***************************** property specs ******************************)
\* A CheckerProperty is a bare checker (a function: it has no .checker) or a
\* ComplexProperty {checker, opt?, deprecated?, context?}.
Bare(c) == [fn |-> c, checker |-> Undefined, opt |-> FALSE, deprecated |-> FALSE,
            context |-> Undefined]
Complex(c, o, d, x) == [fn |-> Undefined, checker |-> c, opt |-> o, deprecated |-> d,
                        context |-> x]
UndefinedProperty == Bare(Undefined)

isComplex(p) == p.checker # Undefined

opt(c) == Complex(c, TRUE, FALSE, Undefined)

deprecated(c) == Complex(c, FALSE, TRUE, Undefined)

CheckerOf(p) == IF isComplex(p) THEN p.checker ELSE p.fn

\* A CheckerRecord: a JS object, its keys in insertion order.
Range(s) == {s[i] : i \in DOMAIN s}
MakeRecord(ks, ps) == [keys |-> ks, at |-> [k \in Range(ks) |-> ps[CHOOSE i \in DOMAIN ks : ks[i] = k]]]
EmptyRecord == MakeRecord(<<>>, <<>>)
Get(rec, k) == IF k \in DOMAIN rec.at THEN rec.at[k] ELSE UndefinedProperty
Includes(s, x) == \E i \in DOMAIN s : s[i] = x

(***************************** one synchronous turn ************************)
\* M is what a turn writes: [sink, hover, expect, calls, pending, run, cases].
ExpectRefs == {RootRef, SyntheticRef} \cup {ValueRef(i) : i \in 1..MaxChildren}
              \cup {KeyRef(i) : i \in 1..MaxChildren}

\* ctx.err.report(message, anchor, severity = Error, info)
Report(M, msg, args, anchor, severity, tag) ==
    [M EXCEPT !.sink = Append(@, [msg |-> msg, args |-> args, anchor |-> anchor,
                                  severity |-> severity, deprecated |-> tag,
                                  run |-> M.run])]

StringExpectation == [type |-> "json:string", typedoc |-> "String", fields |-> <<>>, keys |-> <<>>]
ObjectExpectation == [type |-> "json:object", typedoc |-> "Object", fields |-> <<>>, keys |-> <<>>]

\* expectation(checker, ctx) of ./util: the expectation the checker leaves on
\* a scratch node, harvested without reporting into ctx.err.
Expectation(checker, ctx) ==
    CASE checker \in {"leaf", "slow"} -> <<StringExpectation>>
      [] checker = "object" -> <<ObjectExpectation>>
      [] OTHER -> NoExpectation

\* A leaf checker that completes in the turn that calls it: a string checker.
LeafChecker(ref, node, ctx, M) ==
    LET M1 == [M EXCEPT !.expect[ref] = <<StringExpectation>>]
    IN  IF node.type # "json:string"
        THEN Report(M1, "expected", <<"string">>, ref, "Error", FALSE)
        ELSE M1

\* The same leaf checker when it has to pause before it validates: the call
\* returns a pending promise, the rest runs when the event loop resumes it.
SlowChecker(ref, node, ctx, M) ==
    [M EXCEPT !.expect[ref] = <<StringExpectation>>,
              !.pending = @ \cup {[call |-> Len(M.calls), ref |-> ref,
                                   type |-> node.type, run |-> M.run]}]

\* lines 29-45: the expectation written on the node.
ObjectDescriptor(schema, ctx) ==
    IF ctx.depth <= 0 /\ schema.kind = "fixed"
    THEN [ObjectExpectation EXCEPT !.fields =
            [j \in DOMAIN schema.keys |->
                LET prop == Get(schema, schema.keys[j])
                IN  [key |-> schema.keys[j],
                     value |-> Expectation(CheckerOf(prop), ctx),
                     opt |-> isComplex(prop) /\ (prop.opt \/ prop.deprecated),
                     deprecated |-> isComplex(prop) /\ prop.deprecated]]]
    ELSE IF ctx.depth <= 0 /\ schema.kind = "dynamic"
    THEN [ObjectExpectation EXCEPT !.keys =
            SelectSeq(Expectation(schema.keyChecker, ctx),
                      LAMBDA e : e.type = "json:string")]
    ELSE ObjectExpectation

\* line 48 and line 106: the type-mismatch diagnostic.
ReportExpectedObject(M, ref) ==
    Report(M, "expected", <<"object">>, ref, "Error", FALSE)

\* Faulty variant, for comparison: only opt spares a key the missing diagnostic.
IsOptionalOptOnly(value) == isComplex(value) /\ value.opt

\* line 53: a property that is never reported missing.
IsOptional(value) == isComplex(value) /\ (value.opt \/ value.deprecated)

\* line 57
ReportMissing(M, node, k) ==
    Report(M, "json.checker.property.missing", <<k>>,
           RangeCreate(node.start, node.start + 1), "Error", FALSE)

\* lines 50-59: keys.forEach, the missing-property diagnostics.
RECURSIVE CheckMissing(_, _, _, _)
CheckMissing(schema, node, j, M) ==
    IF j > Len(schema.keys) THEN M
    ELSE LET k == schema.keys[j]
             value == Get(schema, k)
             givenKeys == {node.children[i].key : i \in DOMAIN node.children}
             M1 == IF IsOptional(value) THEN M
                   ELSE IF k \notin givenKeys THEN ReportMissing(M, node, k)
                   ELSE M
         IN  CheckMissing(schema, node, j + 1, M1)

\* Faulty variant, for comparison: the unknown key reported with the default severity.
ReportUnknownAsError(M, key, i) ==
    Report(M, "json.checker.property.unknown", <<key>>, KeyRef(i), "Error", FALSE)

\* line 63
ReportUnknown(M, key, i) ==
    Report(M, "json.checker.property.unknown", <<key>>, KeyRef(i), "Warning", FALSE)

\* Faulty variant, for comparison: the test of line 53 repeated at line 66.
ReportDeprecatedOrOpt(M, value, key, i) ==
    IF isComplex(value) /\ (value.opt \/ value.deprecated)
    THEN Report(M, "json.checker.property.deprecated", <<key>>, KeyRef(i), "Hint", TRUE)
    ELSE M

\* lines 66-68
ReportDeprecated(M, value, key, i) ==
    IF isComplex(value) /\ value.deprecated
    THEN Report(M, "json.checker.property.deprecated", <<key>>, KeyRef(i), "Hint", TRUE)
    ELSE M

\* line 69: `${ctx.context}.${value.context ? `${value.context}.` : ''}${key}`,
\* a dotted path kept as the sequence of its segments.
PropertyContext(ctx, value, key) ==
    ctx.context
    \o (IF isComplex(value) /\ value.context # Undefined THEN <<value.context>> ELSE <<>>)
    \o <<key>>

\* Faulty variant, for comparison: ctx.context = context, the caller's object rewritten.
SpreadInPlace(ctx, context) ==
    [child |-> [ctx EXCEPT !.context = context],
     caller |-> [ctx EXCEPT !.context = context]]

\* line 72: { ...ctx, context } is a new object; ctx itself is what the
\* caller and the next sibling go on with.
Spread(ctx, context) ==
    [child |-> [ctx EXCEPT !.context = context], caller |-> ctx]

\* lines 78 and 81: the context the key checker and the value checker get.
DynamicContext(ctx) == ctx

\* line 73: the hover text, kept as its three parts.
HoverText(context, expectation) ==
    [context |-> context,
     types |-> [e \in DOMAIN expectation |-> expectation[e].typedoc],
     doc |-> Localize(context)]

RECURSIVE object(_, _, _, _, _)
RECURSIVE ApplyChecker(_, _, _, _, _, _)
RECURSIVE CheckGiven(_, _, _, _, _)
RECURSIVE CheckDynamic(_, _, _, _, _)

\* The call checker(node, ctx) of a property checker; i is the child pair it
\* is made for (0 for the key checker's and the selector's calls).
ApplyChecker(checker, ref, node, ctx, i, M) ==
    LET M1 == [M EXCEPT !.calls = Append(@, [checker |-> checker, ref |-> ref,
                                             ctx |-> ctx, i |-> i, run |-> M.run])]
    IN  CASE checker = "leaf" -> LeafChecker(ref, node, ctx, M1)
          [] checker = "slow" -> SlowChecker(ref, node, ctx, M1)
          [] checker = "object" ->
                object([kind |-> "none", keys |-> <<>>, at |-> <<>>,
                        keyChecker |-> Undefined], ref, node, ctx, M1)
          [] OTHER -> M1

\* lines 60-75: one given pair of a fixed-key object, then the rest.
CheckGiven(schema, node, ctx, i, M) ==
    IF i > Len(node.children) THEN M
    ELSE LET prop == node.children[i]
             key == prop.key
             value == Get(schema, key)
             M1 == ReportDeprecated(M, value, key, i)
             context == PropertyContext(ctx, value, key)
             hasValue == prop.value.type # Undefined
             propRef == IF hasValue THEN ValueRef(i) ELSE SyntheticRef
             propNode == IF hasValue THEN prop.value ELSE NullNode
             M2 == IF hasValue THEN M1
                   ELSE [M1 EXCEPT !.expect[SyntheticRef] = NoExpectation]
             spread == Spread(ctx, context)
             M3 == ApplyChecker(CheckerOf(value), propRef, propNode, spread.child, i, M2)
             M4 == [M3 EXCEPT !.hover[i] = HoverText(context, M3.expect[propRef])]
         IN  IF key = NoKey THEN CheckGiven(schema, node, ctx, i + 1, M)
             ELSE IF ~Includes(schema.keys, key)
             THEN CheckGiven(schema, node, ctx, i + 1, ReportUnknown(M, key, i))
             ELSE CheckGiven(schema, node, spread.caller, i + 1, M4)

\* lines 77-83: one given pair of a dynamic-key object, then the rest.
CheckDynamic(schema, node, ctx, i, M) ==
    IF i > Len(node.children) THEN M
    ELSE LET prop == node.children[i]
             M1 == ApplyChecker(schema.keyChecker, KeyRef(i), StringNode(prop.key),
                                DynamicContext(ctx), 0, M)
             value == Get(schema, prop.key)
             M2 == IF prop.value.type # Undefined
                   THEN ApplyChecker(CheckerOf(value), ValueRef(i), prop.value,
                                     DynamicContext(ctx), i, M1)
                   ELSE M1
         IN  CheckDynamic(schema, node, ctx, i + 1, IF prop.key = NoKey THEN M ELSE M2)

\* Faulty variant, for comparison: the type mismatch reported, the checks not stopped.
objectKeepsChecking(schema, ref, node, ctx, M) ==
    LET M1 == [M EXCEPT !.expect[ref] = <<ObjectDescriptor(schema, ctx)>>]
        M2 == IF node.type # "json:object" THEN ReportExpectedObject(M1, ref) ELSE M1
    IN  IF schema.kind = "fixed"
        THEN CheckGiven(schema, node, ctx, 1, CheckMissing(schema, node, 1, M2))
        ELSE IF schema.kind = "dynamic"
        THEN CheckDynamic(schema, node, ctx, 1, M2)
        ELSE M2

\* object(keys?, values?) applied to (node, ctx): lines 28-85.
object(schema, ref, node, ctx, M) ==
    LET M1 == [M EXCEPT !.expect[ref] = <<ObjectDescriptor(schema, ctx)>>]
    IN  IF node.type # "json:object" THEN ReportExpectedObject(M1, ref)
        ELSE IF schema.kind = "fixed"
        THEN CheckGiven(schema, node, ctx, 1, CheckMissing(schema, node, 1, M1))
        ELSE IF schema.kind = "dynamic"
        THEN CheckDynamic(schema, node, ctx, 1, M1)
        ELSE M1

\* record(properties) == object(Object.keys(properties), key => properties[key])
record(properties, ref, node, ctx, M) ==
    object([kind |-> "fixed", keys |-> properties.keys, at |-> properties.at,
            keyChecker |-> Undefined], ref, node, ctx, M)

(***************************** variant resolvers ***************************)
\* A case table: a JS object from case names to CheckerRecords (or, for
\* having, to zero-argument producers of one), its names in insertion order.
MakeTable(ns, es) == [names |-> ns, at |-> [n \in Range(ns) |-> es[CHOOSE i \in DOMAIN ns : ns[i] = n]]]
Direct(rec) == [lazy |-> FALSE, rec |-> rec]
Lazy(rec) == [lazy |-> TRUE, rec |-> rec]

First(S) == CHOOSE i \in S : \A j \in S : i <= j

\* extract(value, children): lines 146-149.
extract(value, children) ==
    LET found == {i \in DOMAIN children : children[i].key = value}
    IN  IF found = {} THEN Undefined
        ELSE IF children[First(found)].value.type = "json:string"
        THEN children[First(found)].value.value
        ELSE Undefined

\* Faulty variant, for comparison: line 130 without the replace of line 120.
pickContextAsWritten(value, table) ==
    IF value = Undefined THEN [properties |-> EmptyRecord, cases |-> table]
    ELSE LET name == StripNamespace(value)
         IN  IF name \notin DOMAIN table.at
             THEN [properties |-> EmptyRecord, cases |-> table]
             ELSE LET properties == table.at[name].rec
                      rewritten ==
                        [properties EXCEPT !.at =
                            [key \in DOMAIN properties.at |->
                                LET p == properties.at[key]
                                IN  [fn |-> Undefined,
                                     checker |-> IF isComplex(p) THEN p.checker ELSE p.fn,
                                     opt |-> IF isComplex(p) THEN p.opt ELSE FALSE,
                                     deprecated |-> IF isComplex(p) THEN p.deprecated ELSE FALSE,
                                     context |-> value]]]
                  IN  [properties |-> rewritten,
                       cases |-> [table EXCEPT !.at[name].rec = rewritten]]

\* pick(value, cases): lines 116-134.  The entries of the chosen case are
\* rewritten in the table itself; the result is that same record.
pick(value, table) ==
    IF value = Undefined THEN [properties |-> EmptyRecord, cases |-> table]
    ELSE LET name == StripNamespace(value)
         IN  IF name \notin DOMAIN table.at
             THEN [properties |-> EmptyRecord, cases |-> table]
             ELSE LET properties == table.at[name].rec
                      rewritten ==
                        [properties EXCEPT !.at =
                            [key \in DOMAIN properties.at |->
                                LET p == properties.at[key]
                                IN  [fn |-> Undefined,
                                     checker |-> IF isComplex(p) THEN p.checker ELSE p.fn,
                                     opt |-> IF isComplex(p) THEN p.opt ELSE FALSE,
                                     deprecated |-> IF isComplex(p) THEN p.deprecated ELSE FALSE,
                                     context |-> StripNamespace(value)]]]
                  IN  [properties |-> rewritten,
                       cases |-> [table EXCEPT !.at[name].rec = rewritten]]

\* when(value, values, properties, notProperties): lines 136-144.
when(value, values, properties, notProperties) ==
    IF value = Undefined THEN EmptyRecord
    ELSE IF ~Includes(values, StripNamespace(value)) THEN notProperties
    ELSE properties

\* having(node, ctx, cases): lines 151-164.
having(node, ctx, table, M) ==
    LET givenKeys == IF node.type = "json:object"
                     THEN {node.children[i].key : i \in DOMAIN node.children}
                     ELSE {}
        found == {j \in DOMAIN table.names : table.names[j] \in givenKeys}
    IN  IF found = {}
        THEN [properties |->
                [keys |-> table.names,
                 at |-> [k \in Range(table.names) |-> Get(table.at[k].rec, k)]],
              M |-> Report(M, "json.checker.property.missing", table.names,
                           RangeCreate(node.start, node.start + 1), "Error", FALSE)]
        ELSE [properties |-> table.at[table.names[First(found)]].rec, M |-> M]

AllowedValues == <<"foo">>

\* dispatch(keyName, values) applied to (node, ctx): lines 104-113.  The
\* selector is v => record({...pick(v, cases)}) or
\* v => record(when(v, AllowedValues, props, notProps)).
dispatch(keyName, selector, whenProps, ref, node, ctx, M) ==
    IF node.type # "json:object" THEN ReportExpectedObject(M, ref)
    ELSE LET found == {i \in DOMAIN node.children : node.children[i].key = keyName}
             dispatcher == IF found = {} THEN [key |-> NoKey, value |-> NoNode]
                           ELSE node.children[First(found)]
             value == IF dispatcher.value.type = "json:string"
                      THEN dispatcher.value.value ELSE Undefined
             M1 == [M EXCEPT !.calls = Append(@, [checker |-> selector, ref |-> ref,
                                                  ctx |-> ctx, i |-> 0, run |-> M.run])]
         IN  IF selector = "pick"
             THEN LET picked == pick(value, M1.cases)
                  IN  record(picked.properties, ref, node, ctx,
                             [M1 EXCEPT !.cases = picked.cases])
             ELSE record(when(value, AllowedValues, whenProps[1], whenProps[2]),
                         ref, node, ctx, M1)

(***************************** inputs **************************************)
Depths == {0, 1}
Contexts == {[depth |-> d, context |-> <<"root">>, err |-> "sink"] : d \in Depths}

Starts == {4}
Pairs(ks, vs) == {[key |-> k, value |-> v] : k \in ks, v \in vs}
Docs(ks, vs) ==
    {ObjectNode(s, ch) : s \in Starts, ch \in SeqsUpTo(Pairs(ks, vs), MaxChildren)}
    \cup {StringNode("foo")}

PlainValues == {NoNode, StringNode("foo"), ObjectNode(0, <<>>)}
TypeValues == {NoNode, StringNode("foo"), StringNode("minecraft:foo"),
               StringNode("zzz"), ObjectNode(0, <<>>)}

OptionsA == {Bare("leaf"), Bare("slow"), Bare("object"), deprecated("slow"),
             Complex("object", TRUE, TRUE, Undefined),
             Complex("leaf", FALSE, FALSE, "ovr")}
OptionsB == {Bare("slow"), opt("object"), deprecated("leaf")}

Schemas ==
    {EmptyRecord}
    \cup {MakeRecord(<<"a">>, <<pa>>) : pa \in OptionsA}
    \cup {MakeRecord(<<"b">>, <<pb>>) : pb \in OptionsB}
    \cup {MakeRecord(<<"a", "b">>, <<pa, pb>>) : pa \in OptionsA, pb \in OptionsB}
    \cup {MakeRecord(<<"b", "a">>, <<pb, pa>>) : pa \in OptionsA, pb \in OptionsB}

NoTable == MakeTable(<<>>, <<>>)

PickTables ==
    { MakeTable(<<"foo">>, <<Direct(MakeRecord(<<"a">>, <<Bare("leaf")>>))>>),
      MakeTable(<<"foo">>, <<Direct(MakeRecord(<<"a", "b">>, <<opt("leaf"), Bare("slow")>>))>>),
      MakeTable(<<"foo", "zzz">>,
                <<Direct(MakeRecord(<<"b", "a">>, <<deprecated("leaf"), Bare("object")>>)),
                  Direct(MakeRecord(<<"a", "b">>, <<Bare("slow"), Bare("slow")>>))>>) }

HavingTables ==
    { MakeTable(<<"a", "b">>,
                <<Direct(MakeRecord(<<"a">>, <<Bare("leaf")>>)),
                  Direct(MakeRecord(<<"b">>, <<Bare("leaf")>>))>>),
      MakeTable(<<"a", "b">>,
                <<Lazy(MakeRecord(<<"a", "u">>, <<opt("leaf"), Bare("slow")>>)),
                  Direct(MakeRecord(<<"b", "a">>, <<Bare("object"), Bare("leaf")>>))>>),
      MakeTable(<<"b", "a">>,
                <<Direct(MakeRecord(<<"b">>, <<deprecated("leaf")>>)),
                  Lazy(MakeRecord(<<"a", "u">>, <<Bare("slow"), Bare("leaf")>>))>>) }

WhenRecords == {EmptyRecord, MakeRecord(<<"b">>, <<Bare("slow")>>)}

DynamicValues == {Bare("leaf"), Bare("slow"), opt("object")}
DynamicKeys == {"a", "b", NoKey}
DynamicSchema(p) == [kind |-> "dynamic", keys |-> <<>>, at |-> [k \in DynamicKeys |-> p],
                     keyChecker |-> "leaf"]

(***************************** the state machine ***************************)
InitSlots ==
    /\ sink = <<>>
    /\ hover = [i \in 1..MaxChildren |-> NoHover]
    /\ hoverPrev = [i \in 1..MaxChildren |-> NoHover]
    /\ expect = [r \in ExpectRefs |-> NoExpectation]
    /\ calls = <<>>
    /\ pending = {}
    /\ run = 0

Init ==
    /\ ctx0 \in Contexts
    /\ \/ /\ mode = "record"
          /\ doc \in Docs({"a", "b", "u", NoKey}, PlainValues)
          /\ props \in Schemas
          /\ notProps = EmptyRecord
          /\ cases = NoTable
       \/ /\ mode = "any"
          /\ doc \in Docs({"a", NoKey}, PlainValues)
          /\ props = EmptyRecord
          /\ notProps = EmptyRecord
          /\ cases = NoTable
       \/ /\ mode = "dynamic"
          /\ doc \in Docs(DynamicKeys, PlainValues)
          /\ props \in {MakeRecord(<<"*">>, <<p>>) : p \in DynamicValues}
          /\ notProps = EmptyRecord
          /\ cases = NoTable
       \/ /\ mode = "pick"
          /\ doc \in Docs({"type", "a", "b", NoKey}, TypeValues)
          /\ props = EmptyRecord
          /\ notProps = EmptyRecord
          /\ cases \in PickTables
       \/ /\ mode = "when"
          /\ doc \in Docs({"type", "a", "b"}, TypeValues)
          /\ props = MakeRecord(<<"a">>, <<Bare("leaf")>>)
          /\ notProps \in WhenRecords
          /\ cases = NoTable
       \/ /\ mode = "having"
          /\ doc \in Docs({"a", "b", "u", NoKey}, PlainValues)
          /\ props = EmptyRecord
          /\ notProps = EmptyRecord
          /\ cases \in HavingTables
    /\ cases0 = cases
    /\ InitSlots

\* The slots as a call finds them; the call is the next run.
Start == [sink |-> sink, hover |-> hover, expect |-> expect, calls |-> calls,
          pending |-> pending, run |-> run + 1, cases |-> cases]

Commit(M) ==
    /\ sink' = M.sink
    /\ hover' = M.hover
    /\ expect' = M.expect
    /\ calls' = M.calls
    /\ pending' = M.pending
    /\ run' = M.run
    /\ cases' = M.cases
    /\ hoverPrev' = hover
    /\ UNCHANGED <<mode, doc, ctx0, props, notProps, cases0>>

\* A caller may call the checker again once the event loop is idle.
CanCall == run < MaxRuns /\ pending = {}

\* record(props)(doc, ctx0)
CheckRecord ==
    /\ mode = "record" /\ CanCall
    /\ Commit(record(props, RootRef, doc, ctx0, Start))

\* object()(doc, ctx0)
CheckAny ==
    /\ mode = "any" /\ CanCall
    /\ Commit(object([kind |-> "none", keys |-> <<>>, at |-> <<>>,
                      keyChecker |-> Undefined], RootRef, doc, ctx0, Start))

\* object(keyChecker, key => value)(doc, ctx0)
CheckDynamicKeys ==
    /\ mode = "dynamic" /\ CanCall
    /\ Commit(object(DynamicSchema(props.at["*"]), RootRef, doc, ctx0, Start))

\* dispatch("type", v => record({...pick(v, cases)}))(doc, ctx0)
CheckPick ==
    /\ mode = "pick" /\ CanCall
    /\ Commit(dispatch("type", "pick", <<props, notProps>>, RootRef, doc, ctx0, Start))

\* dispatch("type", v => record(when(v, AllowedValues, props, notProps)))(doc, ctx0)
CheckWhen ==
    /\ mode = "when" /\ CanCall
    /\ Commit(dispatch("type", "when", <<props, notProps>>, RootRef, doc, ctx0, Start))

\* (node, ctx) => record(having(node, ctx, cases))(node, ctx), on (doc, ctx0)
CheckHaving ==
    /\ mode = "having" /\ CanCall
    /\ LET h == having(doc, ctx0, cases, Start)
       IN  Commit(record(h.properties, RootRef, doc, ctx0, h.M))

\* The event loop resumes one suspended leaf checker: it validates its node.
Resume ==
    \E p \in pending :
        /\ sink' = IF p.type # "json:string"
                   THEN Append(sink, [msg |-> "expected", args |-> <<"string">>,
                                      anchor |-> p.ref, severity |-> "Error",
                                      deprecated |-> FALSE, run |-> p.run])
                   ELSE sink
        /\ pending' = pending \ {p}
        /\ UNCHANGED <<mode, doc, ctx0, props, notProps, cases, cases0, hover, expect,
                       calls, run, hoverPrev>>

Next ==
    \/ CheckRecord
    \/ CheckAny
    \/ CheckDynamicKeys
    \/ CheckPick
    \/ CheckWhen
    \/ CheckHaving
    \/ Resume

Spec == Init /\ [][Next]_vars

(***************************** properties **********************************)
\* The diagnostics of run r, and those of them with message m.
Diags(r) == SelectSeq(sink, LAMBDA d : d.run = r)
OfMsg(s, m) == SelectSeq(s, LAMBDA d : d.msg = m)
MapSeq(s, F(_)) == [j \in DOMAIN s |-> F(s[j])]
Indices(n) == [j \in 1..n |-> j]

RootIsObject == doc.type = "json:object"
GivenKeys == {doc.children[i].key : i \in DOMAIN doc.children} \ {NoKey}
SchemaKeys == Range(props.keys)
\* O: the schema keys flagged opt or deprecated; K: the others.
FlaggedKeys == {k \in SchemaKeys : props.at[k].opt \/ props.at[k].deprecated}
RequiredKeys == SchemaKeys \ FlaggedKeys

MissingDiag(k, r) ==
    [msg |-> "json.checker.property.missing", args |-> <<k>>,
     anchor |-> [kind |-> "range", i |-> 0, start |-> doc.start, end |-> doc.start + 1],
     severity |-> "Error", deprecated |-> FALSE, run |-> r]

\* C1: the fixed-key checker on an object node reports, in schema-declaration
\* order, exactly one missing-property diagnostic per key of K \ (G \cup O),
\* each anchored at the one-character range at the object's start, whatever
\* the order and the duplication of the given keys.
C1_MissingExactlyRequiredAbsent ==
    (mode = "record" /\ RootIsObject) =>
        \A r \in 1..run :
            OfMsg(Diags(r), "json.checker.property.missing")
              = MapSeq(SelectSeq(props.keys,
                                 LAMBDA k : k \in RequiredKeys \ (GivenKeys \cup FlaggedKeys)),
                       LAMBDA k : MissingDiag(k, r))

\* A run on an object that repeats a key, with a required key absent (reported)
\* and a flagged key absent (not reported).
C1_Witness ==
    /\ mode = "record" /\ RootIsObject /\ run = 1
    /\ Len(doc.children) = 2 /\ doc.children[1].key = doc.children[2].key
    /\ RequiredKeys \ GivenKeys # {}
    /\ FlaggedKeys \ GivenKeys # {}
    /\ Len(OfMsg(Diags(1), "json.checker.property.missing")) = 1

UnknownDiag(i, r) ==
    [msg |-> "json.checker.property.unknown", args |-> <<doc.children[i].key>>,
     anchor |-> [kind |-> "key", i |-> i, start |-> 0, end |-> 0],
     severity |-> "Warning", deprecated |-> FALSE, run |-> r]

\* C2: the fixed-key checker on an object node reports one unknown-property
\* diagnostic per occurrence of a given key that is no schema key, in input
\* order, as a Warning anchored at that key node, and none for a schema key.
C2_UnknownExactlyUndeclared ==
    (mode = "record" /\ RootIsObject) =>
        \A r \in 1..run :
            OfMsg(Diags(r), "json.checker.property.unknown")
              = MapSeq(SelectSeq(Indices(Len(doc.children)),
                                 LAMBDA i : doc.children[i].key \in GivenKeys \ SchemaKeys),
                       LAMBDA i : UnknownDiag(i, r))

\* A run on an object that gives the same undeclared key twice, under a schema
\* that declares other keys: two diagnostics, one per occurrence.
C2_Witness ==
    /\ mode = "record" /\ RootIsObject /\ run = 1
    /\ Len(doc.children) = 2
    /\ doc.children[1].key = "u" /\ doc.children[2].key = "u"
    /\ SchemaKeys # {}
    /\ Len(OfMsg(Diags(1), "json.checker.property.unknown")) = 2

DeprecatedDiag(i, r) ==
    [msg |-> "json.checker.property.deprecated", args |-> <<doc.children[i].key>>,
     anchor |-> [kind |-> "key", i |-> i, start |-> 0, end |-> 0],
     severity |-> "Hint", deprecated |-> TRUE, run |-> r]

DeprecatedKeys == {k \in SchemaKeys : props.at[k].deprecated}

\* C8: a key flagged deprecated (with or without opt) is never reported
\* missing; each of its occurrences yields one deprecated-usage diagnostic
\* (Hint, tagged deprecated, anchored at the key) and its checker is still
\* applied to the value; a key flagged only opt yields neither diagnostic.
C8_DeprecatedHintNeverMissing ==
    (mode = "record" /\ RootIsObject) =>
        \A r \in 1..run :
            /\ OfMsg(Diags(r), "json.checker.property.deprecated")
                 = MapSeq(SelectSeq(Indices(Len(doc.children)),
                                    LAMBDA i : doc.children[i].key \in DeprecatedKeys),
                          LAMBDA i : DeprecatedDiag(i, r))
            /\ \A j \in DOMAIN sink :
                   (sink[j].run = r /\ sink[j].msg = "json.checker.property.missing")
                       => sink[j].args[1] \notin FlaggedKeys
            /\ \A i \in DOMAIN doc.children :
                   doc.children[i].key \in DeprecatedKeys =>
                       \E c \in DOMAIN calls :
                           /\ calls[c].run = r /\ calls[c].i = i
                           /\ calls[c].checker = props.at[doc.children[i].key].checker

\* A run in which a deprecated key is given twice and a key flagged only opt
\* is absent: two hints, no missing-property diagnostic.
C8_Witness ==
    /\ mode = "record" /\ RootIsObject /\ run = 1
    /\ Len(doc.children) = 2
    /\ \A i \in DOMAIN doc.children : doc.children[i].key \in DeprecatedKeys
    /\ (FlaggedKeys \ DeprecatedKeys) \ GivenKeys # {}
    /\ Len(OfMsg(Diags(1), "json.checker.property.deprecated")) = 2
    /\ OfMsg(Diags(1), "json.checker.property.missing") = <<>>

\* The first pair whose key is "type", and the case its string value names.
TypeChildren == {i \in DOMAIN doc.children : doc.children[i].key = "type"}
TypeValue ==
    IF TypeChildren = {} THEN Undefined
    ELSE IF doc.children[First(TypeChildren)].value.type # "json:string" THEN Undefined
    ELSE doc.children[First(TypeChildren)].value.value
NamedCases == {c \in DOMAIN cases0.at : TypeValue = c \/ TypeValue = "minecraft:" \o c}
NamedCase == CHOOSE c \in NamedCases : TRUE
CaseRequired(c) ==
    SelectSeq(cases0.at[c].rec.keys,
              LAMBDA k : ~(cases0.at[c].rec.at[k].opt \/ cases0.at[c].rec.at[k].deprecated))

\* C6: dispatch("type", v => record({...pick(v, cases)})) on an object node:
\* when the first "type" pair has a string value naming a case (a leading
\* "minecraft:" stripped), one missing-property diagnostic per required key
\* of that case that is not given; when the pair is absent, its value is no
\* string or names no case, no missing-property diagnostic at all.
C6_DispatchPickMissing ==
    (mode = "pick" /\ RootIsObject) =>
        \A r \in 1..run :
            OfMsg(Diags(r), "json.checker.property.missing")
              = IF NamedCases = {} THEN <<>>
                ELSE MapSeq(SelectSeq(CaseRequired(NamedCase), LAMBDA k : k \notin GivenKeys),
                            LAMBDA k : MissingDiag(k, r))

\* A run where "type" is "minecraft:foo", foo is a case, and a required key of
\* the case is reported missing.
C6_Witness ==
    /\ mode = "pick" /\ RootIsObject /\ run = 1
    /\ TypeValue = "minecraft:foo"
    /\ NamedCases = {"foo"}
    /\ Len(OfMsg(Diags(1), "json.checker.property.missing")) >= 1

ExpectedObjectDiag(ref, r) ==
    [msg |-> "expected", args |-> <<"object">>, anchor |-> ref,
     severity |-> "Error", deprecated |-> FALSE, run |-> r]

\* The slots before the first call.
Blank == [sink |-> <<>>, hover |-> [i \in 1..MaxChildren |-> NoHover],
          expect |-> [r \in ExpectRefs |-> NoExpectation], calls |-> <<>>,
          pending |-> {}, run |-> 1, cases |-> cases0]

\* The given pairs whose property checker is object() and whose value is a
\* node that is no object.
Malformed ==
    {i \in DOMAIN doc.children :
        /\ doc.children[i].key \in SchemaKeys
        /\ CheckerOf(props.at[doc.children[i].key]) = "object"
        /\ doc.children[i].value.type \notin {"json:object", Undefined}}
Repaired(i) == [doc EXCEPT !.children[i].value = ObjectNode(0, <<>>)]
\* What a turn did for the pairs other than i.
Others(M, i) ==
    [sink |-> SelectSeq(M.sink, LAMBDA d : d.anchor # ValueRef(i)),
     hover |-> M.hover,
     calls |-> M.calls,
     pending |-> {[q EXCEPT !.type = Undefined] : q \in {p \in M.pending : p.ref # ValueRef(i)}}]

\* C7: object (in any mode) or dispatch on a node that is no object reports
\* one type-mismatch diagnostic anchored at the node and does nothing else
\* (no other diagnostic, no property checker or selector call, no hover);
\* inside a fixed-key object, what is done for the other given keys is the
\* same whether or not one sibling's value is such a node.
C7_TypeMismatchIsLocal ==
    /\ (mode \in {"record", "any", "dynamic", "pick", "when"} /\ ~RootIsObject) =>
            /\ sink = [r \in 1..run |-> ExpectedObjectDiag(RootRef, r)]
            /\ calls = <<>>
            /\ pending = {}
            /\ \A i \in DOMAIN hover : hover[i] = NoHover
    /\ (mode = "record" /\ RootIsObject) =>
            \A i \in Malformed :
                /\ \A r \in 1..run :
                        SelectSeq(Diags(r), LAMBDA d : d.anchor = ValueRef(i))
                          = <<ExpectedObjectDiag(ValueRef(i), r)>>
                /\ run = 1 =>
                       LET A == record(props, RootRef, doc, ctx0, Blank)
                           B == record(props, RootRef, Repaired(i), ctx0, Blank)
                       IN  /\ hover = A.hover
                           /\ calls = A.calls
                           /\ Others(A, i) = Others(B, i)

\* A run on an object in which one value is no object although its property
\* is checked by object(), next to a sibling whose checker ran and reported.
C7_Witness ==
    /\ mode = "record" /\ RootIsObject /\ run = 1
    /\ Len(doc.children) = 2
    /\ 1 \in Malformed /\ 2 \notin Malformed
    /\ doc.children[2].key \in SchemaKeys
    /\ hover[2] # NoHover
    /\ \E j \in DOMAIN sink : sink[j].anchor = ValueRef(2)

\* Pairs of discriminant values that are equal once a leading "minecraft:" is stripped.
EquivalentValues ==
    {<<"foo", "minecraft:foo">>, <<"minecraft:foo", "foo">>, <<"zzz", "minecraft:zzz">>,
     <<"minecraft:zzz", "zzz">>, <<"foo", "foo">>, <<"minecraft:foo", "minecraft:foo">>,
     <<"minecraft:minecraft:foo", "minecraft:minecraft:foo">>}
\* The marker keys present in a node.
Markers(node) == {node.children[i].key : i \in DOMAIN node.children} \cap Range(cases.names)
MarkerNodes ==
    {ObjectNode(0, ch) :
        ch \in SeqsUpTo(Pairs({"a", "b", "u"}, {NoNode}), MaxChildren)}

\* C9: schema selection is deterministic.  pick and when return the same
\* record for two discriminant values that are equal after the prefix is
\* stripped, and pick returns it whatever calls rewrote the table before;
\* having returns the same case's record for two nodes with the same set of
\* marker keys, whatever the order of their keys.
C9_SelectionDeterministic ==
    /\ mode = "pick" =>
            \A vs \in EquivalentValues :
                LET first == pick(vs[1], cases)
                    second == pick(vs[2], first.cases)
                IN  /\ second.properties = first.properties
                    /\ second.cases = first.cases
                    /\ pick(vs[2], cases0).properties = first.properties
    /\ mode = "when" =>
            \A vs \in EquivalentValues :
                when(vs[1], AllowedValues, props, notProps)
                  = when(vs[2], AllowedValues, props, notProps)
    /\ mode = "having" =>
            \A n \in MarkerNodes :
                Markers(n) = Markers(doc) =>
                    having(n, ctx0, cases, Blank).properties
                      = having(doc, ctx0, cases, Blank).properties

\* A state in which an earlier call of pick has rewritten the case table.
C9_Witness ==
    /\ mode = "pick" /\ run >= 1
    /\ cases # cases0
    /\ \E c \in DOMAIN calls : calls[c].checker = "pick"

\* The path override of the property of key k in the schema in effect.
Override(k) ==
    CASE mode = "record" /\ props.at[k].context # Undefined -> <<props.at[k].context>>
      [] mode = "pick" -> <<NamedCase>>
      [] OTHER -> <<>>

\* C10: the context is never modified.  In fixed-key mode the checker of the
\* given schema key k gets a context equal to the caller's except for its
\* path: the caller's path, the property's override if any, then k; nothing
\* of a sibling's extension is in it.  In dynamic-key mode the key checker
\* and the value checker get the caller's context as it is.
C10_ContextDerivedNotShared ==
    /\ mode \in {"record", "pick", "when", "having"} =>
            \A c \in DOMAIN calls :
                calls[c].i >= 1 =>
                    LET k == doc.children[calls[c].i].key
                    IN  calls[c].ctx
                          = [depth |-> ctx0.depth,
                             context |-> ctx0.context \o Override(k) \o <<k>>,
                             err |-> ctx0.err]
    /\ mode = "dynamic" => \A c \in DOMAIN calls : calls[c].ctx = ctx0

\* A run that called the checkers of two given schema keys, one of them with
\* a path override.
C10_Witness ==
    /\ mode = "record" /\ run = 1 /\ Len(calls) = 2
    /\ calls[1].i = 1 /\ calls[2].i = 2
    /\ Len(calls[1].ctx.context) = 3
    /\ Len(calls[2].ctx.context) = 2

\* C3: when no marker key of cases is present, having reports one
\* missing-property diagnostic naming all the markers, and
\* record(having(node, ctx, cases)) reports no further missing-property
\* diagnostic for the marker keys.
C3_HavingFallbackIsSilent ==
    (mode = "having" /\ RootIsObject /\ Markers(doc) = {}) =>
        \A r \in 1..run :
            OfMsg(Diags(r), "json.checker.property.missing")
              = <<[msg |-> "json.checker.property.missing", args |-> cases.names,
                   anchor |-> [kind |-> "range", i |-> 0, start |-> doc.start,
                               end |-> doc.start + 1],
                   severity |-> "Error", deprecated |-> FALSE, run |-> r]>>

\* C4: sibling property checks run strictly one after the other: while the
\* checker called for a given key is suspended, no later checker of the same
\* run has been called.
C4_SiblingsSequential ==
    \A p \in pending :
        \A c \in DOMAIN calls : calls[c].run = p.run => c <= p.call

Unstamped(s) == [j \in DOMAIN s |-> [s[j] EXCEPT !.run = 0]]

\* C5: a second run of the same checker on the same tree with the same
\* context reports the same sequence of diagnostics and leaves the same
\* hover on every key node.
C5_RerunIdentical ==
    (run >= 2 /\ pending = {}) =>
        /\ Unstamped(Diags(run)) = Unstamped(Diags(run - 1))
        /\ hover = hoverPrev

\* Supporting C5: as long as no checker suspended, the second run repeats the
\* first, the in-place rewriting of the case table by pick included.
RerunIdenticalWithoutSuspension ==
    (run >= 2 /\ \A c \in DOMAIN calls : calls[c].checker # "slow") =>
        /\ Unstamped(Diags(run)) = Unstamped(Diags(run - 1))
        /\ hover = hoverPrev

====
